---- MODULE Spec2Model ----
(***************************************************************************)
(* A model of annotator.py: the EXIF/XMP crop annotation pipeline.         *)
(*                                                                         *)
(*   list_exif_sources -> extract_exif_from_dir (one ExifTool session,     *)
(*   extract_crop_data_from_exif per file, crop-factor filter) ->          *)
(*   resize_serial | resize_parallel (resize_saver / resize_photo per      *)
(*   record) -> json.dump of the annotations.                              *)
(*                                                                         *)
(* Conventions.                                                            *)
(*   - A Python value that may be None is a set: {} is None, {v} is v.     *)
(*   - A file name is a pair <<stem, ext>>.                                *)
(*   - A crop fraction is an integer count of 1/Den units (Den units are   *)
(*     1.0); the CropFactor is kept as its numerator over 4*Den, which has *)
(*     the sign of the Python float: the fractions used are exact in       *)
(*     binary floating point for Den a power of two, and only the sign of  *)
(*     the crop factor is ever tested by the program.                      *)
(***************************************************************************)
EXTENDS Integers, Sequences, FiniteSets, TLC

VARIABLES
    dirc,                 \* the source directory: file name -> content kind
    extractables,         \* config['EXTRACTABLES']: target -> default of .get
    save, parallel,       \* the flags of main
    pc,                   \* position of main / extract_exif_from_dir
    exif_files,           \* result of list_exif_sources
    idx,                  \* position of the for loop of extract_exif_from_dir
    crop_data,            \* the loop's current crop_data ({} before the first)
    cropped_photo_exifs,  \* the list built by the loop
    cropped, uncropped,   \* its counters
    et,                   \* the ExifTool session: "none", "running", "terminated"
    acquired,             \* number of times a session was started
    reads,                \* log of get_metadata calls: <<file, session state,
                          \*   whether some crop field has neither value nor default>>
    cf_log,               \* CropFactor computed for each extracted file, in order
    stage,                \* per candidate: how far the pipeline has taken it
    photo_exifs,          \* value returned by extract_exif_from_dir
    sidx,                 \* position of the for loop of resize_serial
    annotations,          \* the annotations list of main / resize_serial
    par_next,             \* resize_parallel: next task to dispatch
    par_run,              \* resize_parallel: worker -> task being run (0: idle)
    par_res,              \* resize_parallel: task -> result (<<>> while pending)
    par_order,            \* resize_parallel: the tasks in the order they finished
    saved,                \* files written into dest_dir by im.save
    manifest,             \* the annotation file: {} (not written) or {list}
    console,              \* what main has printed
    error,                \* the exception that ended the run ("" if none)
    ser_out,              \* equivalence harness: result of the sequential run
    par_out,              \* equivalence harness: result of the parallel run
    dims                  \* dimension harness: <<W, H, dim_max, out>>

vars == <<dirc, extractables, save, parallel, pc, exif_files, idx, crop_data,
          cropped_photo_exifs, cropped, uncropped, et, acquired, reads, cf_log,
          stage, photo_exifs, sidx, annotations, par_next, par_run, par_res,
          par_order, saved, manifest, console, error, ser_out, par_out, dims>>

(***************************************************************************)
(* Bounds of the model.                                                    *)
(***************************************************************************)
\* At most this many candidate files (sidecars and photos) in the directory.
MaxFiles == 2
\* Worker processes of joblib's Parallel(n_jobs=-1): one per CPU.
NumWorkers == 2
\* Crop fractions are multiples of 1/Den.
Den == 2

None == {}
Some(v) == {v}
Val(o) == CHOOSE v \in o : TRUE

NoneV == <<"None">>
ListV(s) == <<"list", s>>
IsList(v) == Len(v) = 2 /\ v[1] = "list"

(***************************************************************************)
(* File names and the directory.                                           *)
(***************************************************************************)
\* str.lower() on an extension.
Lower(ext) ==
    CASE ext = "XMP" -> "xmp"
      [] ext = "JPG" -> "jpg"
      [] OTHER -> ext

\* The files that may be in the source directory, in the order glob lists them.
AllNames == << <<"a", "xmp">>, <<"c", "XMP">>, <<"b", "jpg">>, <<"d", "dng">>, <<"r", "cr2">> >>

\* What the decoders make of a file: "raw" is decodable by rawpy, "std" by
\* imageio only, "junk" by neither (a text sidecar, a truncated photo).
Contents(n) ==
    CASE Lower(n[2]) = "xmp" -> {"junk"}
      [] Lower(n[2]) \in {"cr2", "dng"} -> {"raw", "junk"}
      [] OTHER -> {"std", "junk"}

\* The photo extensions of list_exif_sources.
extensions == <<"png", "jpg", "jpeg", "tiff", "gif", "dng">>

\* glob.glob(os.path.join(source_dir, '*.' + ext)); the source notes that the
\* match is case insensitive.
Glob(d, ext) == SelectSeq(AllNames, LAMBDA n : n \in DOMAIN d /\ Lower(n[2]) = ext)

RECURSIVE PhotoFiles(_, _)
PhotoFiles(d, k) ==
    IF k > Len(extensions) THEN << >>
    ELSE Glob(d, extensions[k]) \o PhotoFiles(d, k + 1)

\* Faulty variant of ListExifSources: the list is returned even when it is empty.
ListExifSourcesNeverNone(d) == ListV(Glob(d, "xmp") \o PhotoFiles(d, 1))

\* list_exif_sources: sidecars first, then the photos by extension; None when
\* nothing is found.
ListExifSources(d) ==
    LET exif_files_ == Glob(d, "xmp") \o PhotoFiles(d, 1)
    IN  IF Len(exif_files_) > 0 THEN ListV(exif_files_) ELSE NoneV

Directories ==
    { d \in UNION { [S -> {"raw", "std", "junk"}] : S \in SUBSET { AllNames[i] : i \in 1..Len(AllNames) } } :
        /\ \A n \in DOMAIN d : d[n] \in Contents(n)
        /\ LET l == ListExifSources(d)
           IN  IsList(l) => Len(l[2]) <= MaxFiles }

(***************************************************************************)
(* Metadata and extract_crop_data_from_exif.                               *)
(***************************************************************************)
CropKeys == {"CropLeft", "CropTop", "CropRight", "CropBottom"}

\* What ExifTool may report for file n: each crop field present or not, the
\* file's own name, and possibly the name of the raw photo it belongs to.
RawMetas(n) ==
    [ CropLeft     : {None, Some(0), Some(1)},
      CropTop      : {None, Some(0)},
      CropRight    : {None, Some(Den), Some(Den + 1)},
      CropBottom   : {None, Some(Den)},
      ExifFileName : {Some(n)},
      RawFileName  : {None, Some(<<"r", "cr2">>)} ]

\* The two configurations of EXTRACTABLES: [key] (dict.get yields None for a
\* missing key) or [key, default] for the crop fields.
NoDefaults == [k \in CropKeys \cup {"ExifFileName", "RawFileName"} |-> None]
WithDefaults ==
    [k \in CropKeys \cup {"ExifFileName", "RawFileName"} |->
        CASE k \in {"CropLeft", "CropTop"} -> Some(0)
          [] k \in {"CropRight", "CropBottom"} -> Some(Den)
          [] OTHER -> None]

\* exif_data.get(*v)
ExifGet(exif_data, k, xs) == IF exif_data[k] = None THEN xs[k] ELSE exif_data[k]

\* (CropLeft + (1 - CropRight) + CropTop + (1 - CropBottom)) / 4, times 4*Den.
CropFactor(l, t, r, b) == l + (Den - r) + t + (Den - b)

\* The record extract_crop_data_from_exif builds from the looked-up fields.
CropRecord(exif) ==
    [ CropLeft |-> exif["CropLeft"],
      CropTop |-> exif["CropTop"],
      CropRight |-> exif["CropRight"],
      CropBottom |-> exif["CropBottom"],
      ExifFileName |-> exif["ExifFileName"],
      RawFileName |-> exif["RawFileName"],
      CropFactor |-> CropFactor(Val(exif["CropLeft"]), Val(exif["CropTop"]),
                                Val(exif["CropRight"]), Val(exif["CropBottom"])),
      PhotoFileName |->
          IF Lower(Val(exif["ExifFileName"])[2]) = "xmp"
          THEN exif["RawFileName"]
          ELSE exif["ExifFileName"],
      resized |-> FALSE,
      FileName |-> None,
      settings |-> FALSE ]

\* Faulty variant of ExtractCropDataFromExif: a missing crop field counts as 0.
ExtractCoercingNone(exif_data, xs) ==
    LET got == [k \in DOMAIN xs |-> ExifGet(exif_data, k, xs)]
        exif == [k \in DOMAIN xs |-> IF k \in CropKeys /\ got[k] = None THEN Some(0) ELSE got[k]]
    IN  IF exif["ExifFileName"] = None
        THEN [ok |-> FALSE, err |-> "AttributeError"]
        ELSE [ok |-> TRUE, rec |-> CropRecord(exif)]

\* extract_crop_data_from_exif: the record, or the exception it raises.
ExtractCropDataFromExif(exif_data, xs) ==
    LET exif == [k \in DOMAIN xs |-> ExifGet(exif_data, k, xs)]
    IN  IF \E k \in CropKeys : exif[k] = None
        THEN [ok |-> FALSE, err |-> "TypeError"]
        ELSE IF exif["ExifFileName"] = None
        THEN [ok |-> FALSE, err |-> "AttributeError"]
        ELSE [ok |-> TRUE, rec |-> CropRecord(exif)]

(***************************************************************************)
(* resize_photo and resize_saver.                                          *)
(***************************************************************************)
\* rawpy.imread + postprocess on a path of the source directory.
RawpyImread(d, n) ==
    IF n \notin DOMAIN d THEN "LibRawIOError"
    ELSE IF d[n] = "raw" THEN "ok"
    ELSE "LibRawFileUnsupportedError"

\* imageio.imread, reached only for a file that exists.
ImageioImread(d, n) == IF d[n] = "std" THEN "ok" ELSE "ValueError"

\* resize_photo: the name it returns (None for a photo that is not found),
\* the file it saves, or the exception that leaves it.
ResizePhoto(d, n) ==
    LET raw == RawpyImread(d, n)
        new_im_name == <<n[1], "jpg">>
        done == [exc |-> "", ret |-> Some(new_im_name), out |-> {new_im_name}]
    IN  CASE raw = "ok" -> done
          [] raw = "LibRawIOError" -> [exc |-> "", ret |-> None, out |-> {}]
          [] OTHER ->
                IF ImageioImread(d, n) = "ok" THEN done
                ELSE [exc |-> ImageioImread(d, n), ret |-> None, out |-> {}]

\* resize_saver: os.path.join fails on a PhotoFileName of None; otherwise the
\* record gets its FileName and the settings.
ResizeSaver(d, cd) ==
    IF cd.PhotoFileName = None
    THEN [exc |-> "TypeError", rec |-> cd, out |-> {}]
    ELSE LET r == ResizePhoto(d, Val(cd.PhotoFileName))
         IN  IF r.exc # ""
             THEN [exc |-> r.exc, rec |-> cd, out |-> {}]
             ELSE [exc |-> "",
                   rec |-> [cd EXCEPT !.resized = TRUE, !.FileName = r.ret, !.settings = TRUE],
                   out |-> r.out]

(***************************************************************************)
(* Pieces of extract_exif_from_dir and main.                               *)
(***************************************************************************)
\* `with pet.ExifTool(...) as et`: __enter__ starts the process, __exit__
\* terminates it, on the normal and on the exceptional exit.
SessionEnter(s) == "running"
\* Faulty variant of SessionExit: the process is left running.
SessionExitLeak(s) == s
SessionExit(s) == "terminated"

\* Faulty variant of Uncropped: the test is < 0.
UncroppedStrict(cd) == cd.CropFactor < 0
\* The test of the loop: crop_data['CropFactor'] <= 0.
Uncropped(cd) == cd.CropFactor <= 0

\* Faulty variant of KeepCropped: the `continue` is missing.
KeepCroppedNoContinue(list, cd) == Append(list, cd)
\* What the loop body does to the list: `continue` for an uncropped record,
\* append otherwise.
KeepCropped(list, cd) == IF Uncropped(cd) THEN list ELSE Append(list, cd)

\* Faulty variant of NothingToScan: `if not photo_exifs`.
NothingToScanOrEmpty(v) == v = NoneV \/ v = ListV(<< >>)
\* The test of main: photo_exifs is None.
NothingToScan(v) == v = NoneV

\* The stage the pipeline has taken candidate `name` to.
StageIndex(files, name) == CHOOSE i \in 1..Len(files) : files[i] = name
SetStage(st, files, name, s) == [st EXCEPT ![StageIndex(files, name)] = s]
ResultStage(rec) == IF rec.FileName = None THEN "NotFound" ELSE "Resized"

\* The two counts main prints after the resize stage.
NotFoundCount(ann) == Cardinality({i \in 1..Len(ann) : ann[i].FileName = None})
FoundCount(ann) == Cardinality({i \in 1..Len(ann) : ann[i].FileName # None})

Print1(tag, n) == <<tag, n>>

(***************************************************************************)
(* The run of main.                                                        *)
(***************************************************************************)
resizeVars == <<sidx, annotations, par_next, par_run, par_res, par_order, saved>>
extractVars == <<exif_files, idx, crop_data, cropped_photo_exifs, cropped, uncropped,
                 et, acquired, reads, cf_log, photo_exifs>>
inputVars == <<dirc, extractables, save, parallel>>
harnessVars == <<ser_out, par_out, dims>>

Init ==
    /\ dirc \in Directories
    /\ extractables \in {NoDefaults, WithDefaults}
    /\ save \in BOOLEAN
    /\ parallel \in BOOLEAN
    /\ pc = "start"
    /\ exif_files = <<"unset">>
    /\ idx = 0
    /\ crop_data = None
    /\ cropped_photo_exifs = << >>
    /\ cropped = 0
    /\ uncropped = 0
    /\ et = "none"
    /\ acquired = 0
    /\ reads = << >>
    /\ cf_log = << >>
    /\ stage = << >>
    /\ photo_exifs = <<"unset">>
    /\ sidx = 0
    /\ annotations = << >>
    /\ par_next = 0
    /\ par_run = [w \in 1..NumWorkers |-> 0]
    /\ par_res = << >>
    /\ par_order = << >>
    /\ saved = {}
    /\ manifest = None
    /\ console = << >>
    /\ error = ""
    /\ ser_out = <<"unset">>
    /\ par_out = <<"unset">>
    /\ dims = <<0, 0, 0, <<0, 0>>>>

\* main up to list_exif_sources; extract_exif_from_dir returns None at once
\* when there are no candidates.
Discover ==
    /\ pc = "start"
    /\ exif_files' = ListExifSources(dirc)
    /\ console' = Append(console, Print1("scan", 0))
    /\ IF exif_files' = NoneV
       THEN /\ photo_exifs' = NoneV
            /\ pc' = "returned"
            /\ stage' = stage
       ELSE /\ photo_exifs' = photo_exifs
            /\ pc' = "enter"
            /\ stage' = [i \in 1..Len(exif_files'[2]) |-> "Discovered"]
    /\ UNCHANGED <<idx, crop_data, cropped_photo_exifs, cropped, uncropped, et,
                   acquired, reads, cf_log, error, manifest>>
    /\ UNCHANGED <<inputVars, resizeVars, harnessVars>>

\* `with pet.ExifTool(executable_='exiftool') as et:`
EnterSession ==
    /\ pc = "enter"
    /\ et' = SessionEnter(et)
    /\ acquired' = acquired + 1
    /\ idx' = 1
    /\ pc' = "loop"
    /\ UNCHANGED <<exif_files, crop_data, cropped_photo_exifs, cropped, uncropped,
                   reads, cf_log, stage, photo_exifs, error, manifest, console>>
    /\ UNCHANGED <<inputVars, resizeVars, harnessVars>>

\* et.get_metadata(ef) and extract_crop_data_from_exif; an exception leaves
\* the with block, extract_exif_from_dir and main.
ReadAndExtract ==
    /\ pc = "loop"
    /\ idx <= Len(exif_files[2])
    /\ \E exif_data \in RawMetas(exif_files[2][idx]) :
          LET r == ExtractCropDataFromExif(exif_data, extractables)
          IN  /\ reads' = Append(reads, <<exif_files[2][idx], et,
                                          \E k \in CropKeys : exif_data[k] = None /\ extractables[k] = None>>)
              /\ IF r.ok
                 THEN /\ crop_data' = Some(r.rec)
                      /\ cf_log' = Append(cf_log, r.rec.CropFactor)
                      /\ stage' = [stage EXCEPT ![idx] = "MetadataExtracted"]
                      /\ pc' = "classify"
                      /\ UNCHANGED <<et, error>>
                 ELSE /\ et' = SessionExit(et)
                      /\ error' = r.err
                      /\ pc' = "failed"
                      /\ UNCHANGED <<crop_data, cf_log, stage>>
    /\ UNCHANGED <<exif_files, idx, cropped_photo_exifs, cropped, uncropped, acquired,
                   photo_exifs, manifest, console>>
    /\ UNCHANGED <<inputVars, resizeVars, harnessVars>>

\* The if of the loop body: count, and keep the cropped ones.
Classify ==
    /\ pc = "classify"
    /\ IF Uncropped(Val(crop_data))
       THEN /\ uncropped' = uncropped + 1
            /\ stage' = [stage EXCEPT ![idx] = "Discarded"]
            /\ UNCHANGED cropped
       ELSE /\ cropped' = cropped + 1
            /\ stage' = [stage EXCEPT ![idx] = "Cropped"]
            /\ UNCHANGED uncropped
    /\ cropped_photo_exifs' = KeepCropped(cropped_photo_exifs, Val(crop_data))
    /\ idx' = idx + 1
    /\ pc' = "loop"
    /\ UNCHANGED <<exif_files, crop_data, et, acquired, reads, cf_log, photo_exifs,
                   error, manifest, console>>
    /\ UNCHANGED <<inputVars, resizeVars, harnessVars>>

\* The loop is exhausted: the with block ends, the counters are printed and
\* the list is returned.
ExitSession ==
    /\ pc = "loop"
    /\ idx > Len(exif_files[2])
    /\ et' = SessionExit(et)
    /\ console' = console \o <<Print1("cropped", cropped), Print1("uncropped", uncropped)>>
    /\ photo_exifs' = ListV(cropped_photo_exifs)
    /\ pc' = "returned"
    /\ UNCHANGED <<exif_files, idx, crop_data, cropped_photo_exifs, cropped, uncropped,
                   acquired, reads, cf_log, stage, error, manifest>>
    /\ UNCHANGED <<inputVars, resizeVars, harnessVars>>

\* main after extract_exif_from_dir: the early return, or the choice of the
\* resize stage (which first creates dest_dir), or no saving at all.
AfterExtract ==
    /\ pc = "returned"
    /\ IF NothingToScan(photo_exifs)
       THEN /\ console' = Append(console, Print1("no_supported_images", 0))
            /\ pc' = "done"
            /\ UNCHANGED <<sidx, par_next, par_res>>
       ELSE IF save
       THEN /\ console' = Append(console, Print1("resize", 0))
            /\ pc' = IF parallel THEN "resize_parallel" ELSE "resize_serial"
            /\ sidx' = 1
            /\ par_next' = 1
            /\ par_res' = [i \in 1..Len(photo_exifs[2]) |-> << >>]
       ELSE /\ console' = console \o <<Print1("not_saved", 0), Print1("DONE", 0)>>
            /\ pc' = "done"
            /\ UNCHANGED <<sidx, par_next, par_res>>
    /\ UNCHANGED <<annotations, par_run, par_order, saved, stage, error, manifest>>
    /\ UNCHANGED <<inputVars, extractVars, harnessVars>>

\* One turn of the for loop of resize_serial.
SerialStep ==
    /\ pc = "resize_serial"
    /\ sidx <= Len(photo_exifs[2])
    /\ LET r == ResizeSaver(dirc, photo_exifs[2][sidx])
       IN  IF r.exc = ""
           THEN /\ annotations' = Append(annotations, r.rec)
                /\ saved' = saved \cup r.out
                /\ stage' = SetStage(stage, exif_files[2], Val(r.rec.ExifFileName), ResultStage(r.rec))
                /\ sidx' = sidx + 1
                /\ UNCHANGED <<pc, error>>
           ELSE /\ error' = r.exc
                /\ pc' = "failed"
                /\ UNCHANGED <<annotations, saved, stage, sidx>>
    /\ UNCHANGED <<par_next, par_run, par_res, par_order, manifest, console>>
    /\ UNCHANGED <<inputVars, extractVars, harnessVars>>

\* resize_serial returns its annotations.
SerialReturn ==
    /\ pc = "resize_serial"
    /\ sidx > Len(photo_exifs[2])
    /\ pc' = "report"
    /\ UNCHANGED <<stage, error, manifest, console>>
    /\ UNCHANGED <<inputVars, extractVars, resizeVars, harnessVars>>

\* Parallel hands the next delayed(resize_saver)(cd, settings) to an idle
\* worker, in the order of the list.
ParDispatch(w) ==
    /\ pc = "resize_parallel"
    /\ par_run[w] = 0
    /\ par_next <= Len(photo_exifs[2])
    /\ par_run' = [par_run EXCEPT ![w] = par_next]
    /\ par_next' = par_next + 1
    /\ UNCHANGED <<sidx, annotations, par_res, par_order, saved, stage, error, manifest, console, pc>>
    /\ UNCHANGED <<inputVars, extractVars, harnessVars>>

\* A worker runs resize_saver on its copy of the record and sends back the
\* result or the exception.
ParFinish(w) ==
    /\ pc = "resize_parallel"
    /\ par_run[w] # 0
    /\ LET i == par_run[w]
           r == ResizeSaver(dirc, photo_exifs[2][i])
       IN  IF r.exc = ""
           THEN /\ par_res' = [par_res EXCEPT ![i] = <<"ok", r.rec>>]
                /\ saved' = saved \cup r.out
                /\ stage' = SetStage(stage, exif_files[2], Val(r.rec.ExifFileName), ResultStage(r.rec))
           ELSE /\ par_res' = [par_res EXCEPT ![i] = <<"exc", r.exc>>]
                /\ UNCHANGED <<saved, stage>>
    /\ par_run' = [par_run EXCEPT ![w] = 0]
    /\ par_order' = Append(par_order, par_run[w])
    /\ UNCHANGED <<sidx, annotations, par_next, error, manifest, console, pc>>
    /\ UNCHANGED <<inputVars, extractVars, harnessVars>>

\* Faulty variant of Gather: the results without a FileName are left out.
GatherFound(res) == SelectSeq([i \in 1..Len(res) |-> res[i][2]], LAMBDA r : r.FileName # None)
\* The results of Parallel, gathered in the order of the tasks.
Gather(res) == [i \in 1..Len(res) |-> res[i][2]]

\* Every task has returned: Parallel returns the list of results.
ParCollect ==
    /\ pc = "resize_parallel"
    /\ \A i \in 1..Len(par_res) : Len(par_res[i]) = 2 /\ par_res[i][1] = "ok"
    /\ annotations' = Gather(par_res)
    /\ pc' = "report"
    /\ UNCHANGED <<sidx, par_next, par_run, par_res, par_order, saved, stage, error, manifest, console>>
    /\ UNCHANGED <<inputVars, extractVars, harnessVars>>

\* A task has raised: Parallel raises its exception in main.
ParRaise ==
    /\ pc = "resize_parallel"
    /\ \E i \in 1..Len(par_res) :
          /\ Len(par_res[i]) = 2
          /\ par_res[i][1] = "exc"
          /\ error' = par_res[i][2]
    /\ pc' = "failed"
    /\ UNCHANGED <<stage, manifest, console>>
    /\ UNCHANGED <<inputVars, extractVars, resizeVars, harnessVars>>

\* main after the resize stage: the two counts, json.dump, DONE.
Report ==
    /\ pc = "report"
    /\ manifest' = Some(annotations)
    /\ console' = console \o <<Print1("not_found", NotFoundCount(annotations)),
                               Print1("resized", FoundCount(annotations)),
                               Print1("saved_annotations", 0),
                               Print1("DONE", 0)>>
    /\ pc' = "done"
    /\ UNCHANGED <<stage, error>>
    /\ UNCHANGED <<inputVars, extractVars, resizeVars, harnessVars>>

Next ==
    \/ Discover
    \/ EnterSession
    \/ ReadAndExtract
    \/ Classify
    \/ ExitSession
    \/ AfterExtract
    \/ SerialStep
    \/ SerialReturn
    \/ \E w \in 1..NumWorkers : ParDispatch(w)
    \/ \E w \in 1..NumWorkers : ParFinish(w)
    \/ ParCollect
    \/ ParRaise
    \/ Report

Spec == Init /\ [][Next]_vars

(***************************************************************************)
(* Properties of the run of main.                                          *)
(***************************************************************************)
Extracted == photo_exifs # <<"unset">>
Files == exif_files[2]
Returned == photo_exifs[2]
Printed(tag) == \E i \in 1..Len(console) : console[i][1] = tag

\* The names with one of the extensions list_exif_sources looks for.
Candidates ==
    {n \in DOMAIN dirc : Lower(n[2]) \in {"xmp", "png", "jpg", "jpeg", "tiff", "gif", "dng"}}

\* C1: when extract_exif_from_dir returns a list, the record of an extracted
\* file is in it iff its CropFactor is > 0; the others (0 or below) are only
\* counted as uncropped.
C1_KeptIffCropFactorPositive ==
    IsList(photo_exifs) =>
        /\ Len(cf_log) = Len(Files)
        /\ \A i \in 1..Len(Files) :
              /\ (\E j \in 1..Len(Returned) : Returned[j].ExifFileName = Some(Files[i]))
                    <=> cf_log[i] > 0
              /\ \A j \in 1..Len(Returned) :
                    Returned[j].ExifFileName = Some(Files[i]) => Returned[j].CropFactor = cf_log[i]
        /\ Len(Returned) = Cardinality({i \in 1..Len(Files) : cf_log[i] > 0})
        /\ cropped = Len(Returned)
        /\ uncropped = Cardinality({i \in 1..Len(Files) : cf_log[i] <= 0})

\* A list was returned after a file with CropFactor exactly 0 and a file with
\* a positive one were extracted.
C1_Witness ==
    /\ IsList(photo_exifs)
    /\ \E i, j \in 1..Len(cf_log) : cf_log[i] = 0 /\ cf_log[j] > 0

\* C2 as stated: with save, candidates found and none cropped, a finished run
\* has written no manifest.
C2_NoManifestWhenNoneCropped ==
    (pc = "done" /\ save /\ IsList(exif_files) /\ photo_exifs = ListV(<< >>))
        => manifest = None

\* C2 as amended: a finished run has written the manifest iff save is set and
\* extract_exif_from_dir returned a list; with none cropped that list is empty
\* and the manifest written is the empty list.  Before the end nothing is
\* written.
C2_EmptyManifestWritten ==
    /\ pc # "done" => manifest = None
    /\ pc = "done" => (manifest # None <=> (save /\ IsList(photo_exifs)))
    /\ (pc = "done" /\ save /\ photo_exifs = ListV(<< >>)) => manifest = Some(<< >>)

\* A finished run with save, candidates and nothing cropped.
C2_Witness ==
    /\ pc = "done"
    /\ save
    /\ IsList(exif_files)
    /\ Len(Files) > 0
    /\ photo_exifs = ListV(<< >>)

\* The photo of a record is missing, or no decoder reads it.
Unreadable(rec) ==
    /\ rec.PhotoFileName # None
    /\ \/ Val(rec.PhotoFileName) \notin DOMAIN dirc
       \/ dirc[Val(rec.PhotoFileName)] = "junk"

\* C3 as stated: in a resize stage whose records all name a photo, a record
\* whose photo is missing or unreadable raises nothing and aborts nothing: the
\* run does not fail, and once finished every record is in the manifest, the
\* unreadable ones without a FileName.
C3_UnreadableNeverAborts ==
    (/\ IsList(photo_exifs)
     /\ save
     /\ \A i \in 1..Len(Returned) : Returned[i].PhotoFileName # None
     /\ \E i \in 1..Len(Returned) : Unreadable(Returned[i]))
        => /\ pc # "failed"
           /\ error = ""
           /\ pc = "done" =>
                 /\ Len(Val(manifest)) = Len(Returned)
                 /\ \A i \in 1..Len(Returned) :
                       Unreadable(Returned[i]) => Val(manifest)[i].FileName = None

\* C5: a read in which some crop field has neither a value nor a default ends
\* the run with a TypeError; the file is neither counted (cropped or
\* uncropped) nor kept.
C5_MissingFieldFails ==
    \A i \in 1..Len(reads) :
        reads[i][3] =>
            /\ i = Len(reads)
            /\ pc = "failed"
            /\ error = "TypeError"
            /\ Len(cf_log) = i - 1
            /\ cropped + uncropped = i - 1
            /\ crop_data = None \/ Val(crop_data).ExifFileName # Some(reads[i][1])
            /\ \A j \in 1..Len(cropped_photo_exifs) :
                  cropped_photo_exifs[j].ExifFileName # Some(reads[i][1])
            /\ photo_exifs = <<"unset">>
            /\ manifest = None

\* The second file read lacks a crop field, after a first file was classified.
C5_Witness ==
    /\ Len(reads) = 2
    /\ reads[2][3]
    /\ pc = "failed"
    /\ cropped + uncropped = 1

\* C6 as stated: every record handed to the resize stage has a
\* PhotoFileName.
C6_SourceResolvedBeforeResize ==
    pc \in {"resize_serial", "resize_parallel"} =>
        \A i \in 1..Len(Returned) : Returned[i].PhotoFileName # None

\* C7: extract_exif_from_dir returns None iff there is no candidate; with
\* candidates and nothing cropped it returns the empty list; main returns
\* early exactly on None.
C7_NoneIffNoCandidates ==
    /\ Extracted => (photo_exifs = NoneV <=> Candidates = {})
    /\ (Extracted /\ Candidates # {} /\ cropped = 0) => photo_exifs = ListV(<< >>)
    /\ pc = "done" => (Printed("no_supported_images") <=> photo_exifs = NoneV)
    /\ Printed("no_supported_images") => (pc = "done" /\ ~Printed("DONE"))

\* A finished run over a directory with candidates, none of them cropped.
C7_Witness ==
    /\ pc = "done"
    /\ Candidates # {}
    /\ photo_exifs = ListV(<< >>)
    /\ ~Printed("no_supported_images")

\* C8: the session is started at most once, exactly once when there is a
\* candidate to read; every get_metadata happens in the running session;
\* the session is running exactly while the with block is; once
\* extract_exif_from_dir has returned or raised no session is running.
C8_SessionScoped ==
    /\ acquired <= 1
    /\ \A i \in 1..Len(reads) : reads[i][2] = "running"
    /\ et = "running" <=> pc \in {"loop", "classify"}
    /\ pc \in {"loop", "classify"} => acquired = 1
    /\ (Extracted \/ pc = "failed") =>
          IF IsList(exif_files) THEN acquired = 1 /\ et = "terminated"
          ELSE acquired = 0 /\ et = "none"

\* The pass ended by an exception on its second file.
C8_Witness ==
    /\ pc = "failed"
    /\ ~Extracted
    /\ Len(reads) = 2
    /\ et = "terminated"

\* The transitions of a record.
Transitions ==
    { <<"Discovered", "MetadataExtracted">>,
      <<"MetadataExtracted", "Discarded">>,
      <<"MetadataExtracted", "Cropped">>,
      <<"Cropped", "Resized">>,
      <<"Cropped", "NotFound">> }

\* C10: every step leaves the stage of a candidate alone or takes one of
\* Discovered -> MetadataExtracted -> {Discarded | Cropped} -> {Resized |
\* NotFound}; a candidate starts Discovered.
C10_StagesOnlyAdvance ==
    [][ /\ \A i \in DOMAIN stage' : i \notin DOMAIN stage => stage'[i] = "Discovered"
        /\ \A i \in DOMAIN stage :
              /\ i \in DOMAIN stage'
              /\ stage'[i] = stage[i] \/ <<stage[i], stage'[i]>> \in Transitions ]_vars

\* A finished run with a discarded and a resized record.
C10_Witness ==
    /\ pc = "done"
    /\ \E i, j \in DOMAIN stage : stage[i] = "Discarded" /\ stage[j] \in {"Resized", "NotFound"}

(***************************************************************************)
(* resize_serial against resize_parallel: the two resize stages run, one   *)
(* after the other, on the same directory and the same list of cropped     *)
(* records, as two runs of main(save=True) that differ in `parallel` do.   *)
(***************************************************************************)
\* The records extract_exif_from_dir can keep for file n.
KeptRecords(n) ==
    { ExtractCropDataFromExif(exif_data, NoDefaults).rec :
        exif_data \in { x \in RawMetas(n) :
                          LET r == ExtractCropDataFromExif(x, NoDefaults)
                          IN  r.ok /\ ~Uncropped(r.rec) } }

\* What a resize stage ended with: its annotations, or what it raised.
Outcome == IF pc = "report" THEN ListV(annotations) ELSE <<"raised", error>>

EqInit ==
    /\ dirc \in Directories
    /\ IsList(ListExifSources(dirc))
    /\ exif_files = ListExifSources(dirc)
    /\ \E recs \in [1..Len(exif_files[2]) -> UNION {KeptRecords(exif_files[2][i]) : i \in 1..Len(exif_files[2])}] :
          /\ \A i \in 1..Len(exif_files[2]) : recs[i] \in KeptRecords(exif_files[2][i])
          /\ photo_exifs = ListV(recs)
    /\ extractables = NoDefaults
    /\ save = TRUE
    /\ parallel = FALSE
    /\ pc = "resize_serial"
    /\ idx = Len(exif_files[2]) + 1
    /\ crop_data = Some(photo_exifs[2][Len(photo_exifs[2])])
    /\ cropped_photo_exifs = photo_exifs[2]
    /\ cropped = Len(photo_exifs[2])
    /\ uncropped = 0
    /\ et = "terminated"
    /\ acquired = 1
    /\ reads = [i \in 1..Len(exif_files[2]) |-> <<exif_files[2][i], "running", FALSE>>]
    /\ cf_log = [i \in 1..Len(exif_files[2]) |-> photo_exifs[2][i].CropFactor]
    /\ stage = [i \in 1..Len(exif_files[2]) |-> "Cropped"]
    /\ sidx = 1
    /\ annotations = << >>
    /\ par_next = 1
    /\ par_run = [w \in 1..NumWorkers |-> 0]
    /\ par_res = [i \in 1..Len(photo_exifs[2]) |-> << >>]
    /\ par_order = << >>
    /\ saved = {}
    /\ manifest = None
    /\ console = <<Print1("scan", 0), Print1("cropped", cropped), Print1("uncropped", 0),
                   Print1("resize", 0)>>
    /\ error = ""
    /\ ser_out = <<"unset">>
    /\ par_out = <<"unset">>
    /\ dims = <<0, 0, 0, <<0, 0>>>>

\* The sequential stage has ended: keep its outcome and start the parallel
\* stage of a fresh run on the same input.
EqSwitch ==
    /\ pc \in {"report", "failed"}
    /\ ser_out = <<"unset">>
    /\ ser_out' = Outcome
    /\ parallel' = TRUE
    /\ pc' = "resize_parallel"
    /\ annotations' = << >>
    /\ error' = ""
    /\ saved' = {}
    /\ stage' = [i \in 1..Len(exif_files[2]) |-> "Cropped"]
    /\ UNCHANGED <<dirc, extractables, save, sidx, par_next, par_run, par_res, par_order,
                   manifest, console, par_out, dims>>
    /\ UNCHANGED extractVars

\* The parallel stage has ended: keep its outcome.
EqFinish ==
    /\ pc \in {"report", "failed"}
    /\ ser_out # <<"unset">>
    /\ par_out' = Outcome
    /\ pc' = "compared"
    /\ UNCHANGED <<stage, error, manifest, console, ser_out, dims>>
    /\ UNCHANGED <<inputVars, extractVars, resizeVars>>

EqNext ==
    \/ SerialStep
    \/ SerialReturn
    \/ \E w \in 1..NumWorkers : ParDispatch(w)
    \/ \E w \in 1..NumWorkers : ParFinish(w)
    \/ ParCollect
    \/ ParRaise
    \/ EqSwitch
    \/ EqFinish

SpecEq == EqInit /\ [][EqNext]_vars

\* (source_filename, output_filename present) of a manifest row.
Pair(rec) == <<rec.PhotoFileName, rec.FileName # None>>
PairCount(list, p) == Cardinality({i \in 1..Len(list) : Pair(list[i]) = p})
Pairs(list) == {Pair(list[i]) : i \in 1..Len(list)}

\* C4: on the same records and settings the sequential and the parallel stage
\* either both raise or both return, and then their manifests hold the same
\* multiset of (source_filename, output_filename present) pairs, whatever the
\* order in which the workers finish.
C4_SameMultiset ==
    (ser_out # <<"unset">> /\ par_out # <<"unset">>) =>
        /\ IsList(ser_out) <=> IsList(par_out)
        /\ IsList(ser_out) /\ IsList(par_out) =>
              /\ Len(ser_out[2]) = Len(photo_exifs[2])
              /\ \A p \in Pairs(ser_out[2]) \cup Pairs(par_out[2]) :
                    PairCount(ser_out[2], p) = PairCount(par_out[2], p)

\* Both stages returned two rows, one with and one without an output file, and
\* the second task of the parallel stage finished first.
C4_Witness ==
    /\ IsList(ser_out)
    /\ IsList(par_out)
    /\ Len(par_out[2]) >= 2
    /\ \E p, q \in Pairs(par_out[2]) : p[2] /\ ~q[2]
    /\ par_order[1] = 2

(***************************************************************************)
(* The arithmetic of resize_photo:                                         *)
(*     r = dim_max / max(im.width, im.height)                              *)
(*     im.resize((int(im.width * r), int(im.height * r)))                  *)
(* in IEEE 754 binary64, as CPython computes it.  A positive double is     *)
(* [m |-> <<l1, l2, l3, l4>>, e |-> e]: its 53-bit significand is a        *)
(* leading 1 followed by the four 13-bit limbs (52 bits), and e is the     *)
(* exponent of its last bit, so that its value is                          *)
(*     (2^52 + l1 * 2^39 + l2 * 2^26 + l3 * 2^13 + l4) * 2^e.              *)
(* The operands are positive ints below 2^13, which keeps every            *)
(* intermediate value of the model below 2^31.                             *)
(***************************************************************************)
RECURSIVE Pow2(_)
Pow2(n) == IF n = 0 THEN 1 ELSE 2 * Pow2(n - 1)

\* A limb holds 13 bits.
Base == Pow2(13)

\* The k with 2^k <= a/b < 2^(k+1).
RECURSIVE Log2Floor(_, _)
Log2Floor(a, b) ==
    IF a >= b
    THEN IF a >= 2 * b THEN Log2Floor(a, 2 * b) + 1 ELSE 0
    ELSE Log2Floor(2 * a, b) - 1

\* The number of binary digits of n.
RECURSIVE BitLen(_)
BitLen(n) == IF n = 0 THEN 0 ELSE BitLen(n \div 2) + 1

\* The significand m plus one unit in the last place.
IncLimbs(m, e) ==
    LET s4 == m[4] + 1
        s3 == m[3] + s4 \div Base
        s2 == m[2] + s3 \div Base
        s1 == m[1] + s2 \div Base
    IN  [m |-> <<s1 % Base, s2 % Base, s3 % Base, s4 % Base>>, e |-> e + s1 \div Base]

\* Round to nearest, ties to even: m holds the 53 leading bits of the exact
\* value, `half` is the next bit and `sticky` tells whether anything nonzero
\* follows it.
RoundNearestEven(m, e, half, sticky) ==
    IF half = 1 /\ (sticky \/ m[4] % 2 = 1) THEN IncLimbs(m, e) ELSE [m |-> m, e |-> e]

\* a / b for positive ints a, b: the correctly rounded quotient, by long
\* division of a/b scaled into [1, 2).
TrueDiv(a, b) ==
    LET k == Log2Floor(a, b)
        num == IF k < 0 THEN a * Pow2(-k) ELSE a
        den == IF k < 0 THEN b ELSE b * Pow2(k)
        r0 == num - den
        r1 == (r0 * Base) % den
        r2 == (r1 * Base) % den
        r3 == (r2 * Base) % den
        r4 == (r3 * Base) % den
        half == IF 2 * r4 >= den THEN 1 ELSE 0
    IN  RoundNearestEven(<<(r0 * Base) \div den, (r1 * Base) \div den,
                           (r2 * Base) \div den, (r3 * Base) \div den>>,
                         k - 52, half, 2 * r4 - half * den # 0)

\* float(w) * x for a positive int w: the exact product w * significand, as
\* digits t0, p1..p4 in base 2^13, shifted right by the s bits it has beyond
\* 53, and rounded.
FloatMul(w, x) ==
    LET t4 == w * x.m[4]
        t3 == w * x.m[3] + t4 \div Base
        t2 == w * x.m[2] + t3 \div Base
        t1 == w * x.m[1] + t2 \div Base
        t0 == w + t1 \div Base
        D == <<t0, t1 % Base, t2 % Base, t3 % Base, t4 % Base>>
        s == BitLen(t0) - 1
        Shifted(i) == D[i + 1] \div Pow2(s) + (D[i] % Pow2(s)) * Pow2(13 - s)
        half == IF s = 0 THEN 0 ELSE (D[5] \div Pow2(s - 1)) % 2
        sticky == s >= 2 /\ D[5] % Pow2(s - 1) # 0
    IN  RoundNearestEven(<<Shifted(1), Shifted(2), Shifted(3), Shifted(4)>>, x.e + s, half, sticky)

\* The 27 leading bits of the significand.
Top27(x) == Pow2(26) + x.m[1] * Base + x.m[2]

\* Faulty variant of IntTrunc: round(x), to nearest with ties to even.
IntRound(x) ==
    LET keep == 53 + x.e
        whole == IF keep <= 0 THEN 0 ELSE Top27(x) \div Pow2(27 - keep)
        half == IF keep < 0 THEN 0 ELSE (Top27(x) \div Pow2(26 - keep)) % 2
        sticky == \/ keep < 0
                  \/ Top27(x) % Pow2(26 - keep) # 0
                  \/ x.m[3] # 0
                  \/ x.m[4] # 0
    IN  IF half = 1 /\ (sticky \/ whole % 2 = 1) THEN whole + 1 ELSE whole

\* int(x) for a positive double below 2^26: the bits above the binary point.
IntTrunc(x) ==
    LET keep == 53 + x.e
    IN  IF keep <= 0 THEN 0 ELSE Top27(x) \div Pow2(27 - keep)

Max(a, b) == IF a >= b THEN a ELSE b

\* The size resize_photo asks of im.resize.
ResizeDims(width, height, dim_max) ==
    LET r == TrueDiv(dim_max, Max(width, height))
    IN  <<IntTrunc(FloatMul(width, r)), IntTrunc(FloatMul(height, r))>>

\* Image sides and values of dim_max tried.
MaxSide == 12
Sides == (1..MaxSide) \cup {19, 49, 2000, 3000, 4000}
DimMaxes == {1, 3, 10, 1000}

DimInit ==
    /\ \E w \in Sides, h \in Sides, d \in DimMaxes : dims = <<w, h, d, <<0, 0>>>>
    /\ pc = "resize"
    /\ dirc = << >>
    /\ extractables = NoDefaults
    /\ save = TRUE
    /\ parallel = FALSE
    /\ exif_files = <<"unset">>
    /\ idx = 0
    /\ crop_data = None
    /\ cropped_photo_exifs = << >>
    /\ cropped = 0
    /\ uncropped = 0
    /\ et = "none"
    /\ acquired = 0
    /\ reads = << >>
    /\ cf_log = << >>
    /\ stage = << >>
    /\ photo_exifs = <<"unset">>
    /\ sidx = 0
    /\ annotations = << >>
    /\ par_next = 0
    /\ par_run = [w \in 1..NumWorkers |-> 0]
    /\ par_res = << >>
    /\ par_order = << >>
    /\ saved = {}
    /\ manifest = None
    /\ console = << >>
    /\ error = ""
    /\ ser_out = <<"unset">>
    /\ par_out = <<"unset">>

\* Lines 54-58 of resize_photo on a decoded image of dims[1] x dims[2].
Resize ==
    /\ pc = "resize"
    /\ dims' = <<dims[1], dims[2], dims[3], ResizeDims(dims[1], dims[2], dims[3])>>
    /\ pc' = "resized"
    /\ UNCHANGED <<stage, manifest, console, error, ser_out, par_out>>
    /\ UNCHANGED <<inputVars, extractVars, resizeVars>>

DimNext == Resize

SpecDims == DimInit /\ [][DimNext]_vars

\* The exact scaled side x * dim_max / max(W, H) is Num(x) / Longest.
Longest == Max(dims[1], dims[2])
Num(x) == x * dims[3]
\* Nearest integers of Num(x) / Longest (both neighbours on a tie).
Nearest(x) == {(2 * Num(x) + Longest) \div (2 * Longest),
               (2 * Num(x) + Longest - 1) \div (2 * Longest)}

\* C9 as stated: each output side is the scaled side rounded to the nearest
\* integer.
C9_RoundedToNearest ==
    pc = "resized" => (dims[4][1] \in Nearest(dims[1]) /\ dims[4][2] \in Nearest(dims[2]))

\* Side x is truncated: the floor of the exact scaled side, or one below it
\* when the exact scaled side is an integer.
Truncated(x, out) ==
    IF Num(x) % Longest = 0
    THEN out \in {Num(x) \div Longest, Num(x) \div Longest - 1}
    ELSE out = Num(x) \div Longest

\* C9 as amended: each output side is truncated toward zero, never rounded up;
\* 4000 x 3000 with dim_max 1000 gives 1000 x 750, 3000 x 2000 gives
\* 1000 x 666, and 19 x 19 gives 999 x 999.
C9_TruncatedTowardZero ==
    pc = "resized" =>
        /\ Truncated(dims[1], dims[4][1])
        /\ Truncated(dims[2], dims[4][2])
        /\ (dims[1] = 4000 /\ dims[2] = 3000 /\ dims[3] = 1000) => dims[4] = <<1000, 750>>
        /\ (dims[1] = 3000 /\ dims[2] = 2000 /\ dims[3] = 1000) => dims[4] = <<1000, 666>>
        /\ (dims[1] = 19 /\ dims[2] = 19 /\ dims[3] = 1000) => dims[4] = <<999, 999>>

\* A 3000 x 2000 image resized with dim_max 1000.
C9_Witness ==
    /\ pc = "resized"
    /\ dims[1] = 3000
    /\ dims[2] = 2000
    /\ dims[3] = 1000
    /\ dims[4] = <<1000, 666>>
====
